---- MODULE Spec2Model ----
(***************************************************************************)
(* A model of rnaseek/miso.py: the SpliceAnnotator class, which parses     *)
(* MISO splicing-event identifiers, builds exon and intron intervals,      *)
(* resolves the two isoforms of an event and aggregates gene/transcript    *)
(* annotation tables.                                                      *)
(*                                                                         *)
(* Python strings are modelled as sequences of one-character strings, so   *)
(* that split, join, indexing and int() are computed character by          *)
(* character, as the interpreter computes them.                            *)
(***************************************************************************)
EXTENDS Integers, Sequences, FiniteSets, TLC

VARIABLES
    pc,               \* where the driver of the annotator stands
    miso_ids,         \* self.miso_ids
    splice_type,      \* self.splice_type
    n_exons,          \* self.n_exons (0 models None)
    exon_ids,         \* self.exon_ids
    exon_coords,      \* self.exon_coords
    exon_bedtools,    \* self.exon_bedtools
    intron_bedtools,  \* self.intron_bedtools
    raised,           \* the exception that escaped the last operation
    call,             \* the last direct method call: its arguments and result
    db,               \* the gffutils database of convert_miso_ids_to_everything
    event_index,      \* the events its loop has been through
    miso_tos,         \* its tables event -> joined values
    to_misos          \* its tables value -> events

vars == <<pc, miso_ids, splice_type, n_exons, exon_ids, exon_coords,
          exon_bedtools, intron_bedtools, raised, call, db, event_index,
          miso_tos, to_misos>>

\* the locals of convert_miso_ids_to_everything
conversion == <<db, event_index, miso_tos, to_misos>>

(***************************************************************************)
(* Bounds of the model.                                                    *)
(***************************************************************************)
\* alternatives written in one coordinate, a|b|...
MaxAlts == 2
\* '@'-separated exon fields of an identifier handed to miso_id_to_exon_ids
MaxIdFields == 3

(***************************************************************************)
(* Python built-ins on strings.                                            *)
(***************************************************************************)
DigitChars == <<"0", "1", "2", "3", "4", "5", "6", "7", "8", "9">>

IsDigit(c) == \E d \in 1..10 : DigitChars[d] = c

DigitVal(c) == (CHOOSE d \in 1..10 : DigitChars[d] = c) - 1

RECURSIVE DigitsValue(_)
DigitsValue(s) ==
    IF s = <<>> THEN 0
    ELSE 10 * DigitsValue(SubSeq(s, 1, Len(s) - 1)) + DigitVal(s[Len(s)])

\* the characters of s once an optional leading sign is taken off
Unsigned(s) == IF s # <<>> /\ s[1] \in {"+", "-"} THEN Tail(s) ELSE s

\* int(s) returns (rather than raising ValueError)
IsInt(s) ==
    /\ Unsigned(s) # <<>>
    /\ \A k \in 1..Len(Unsigned(s)) : IsDigit(Unsigned(s)[k])

\* int(s)
Int_(s) ==
    IF s # <<>> /\ s[1] = "-" THEN 0 - DigitsValue(Unsigned(s))
    ELSE DigitsValue(Unsigned(s))

\* '{}'.format(n) of an integer n
RECURSIVE NatStr(_)
NatStr(n) ==
    IF n < 10 THEN <<DigitChars[n + 1]>>
    ELSE NatStr(n \div 10) \o <<DigitChars[(n % 10) + 1]>>

Str(n) == IF n < 0 THEN <<"-">> \o NatStr(0 - n) ELSE NatStr(n)

\* the first index of sep in s at or after from, 0 when there is none
IndexFrom(s, sep, from) ==
    IF \E k \in from..Len(s) : s[k] = sep
    THEN CHOOSE k \in from..Len(s) :
             s[k] = sep /\ \A j \in from..(k - 1) : s[j] # sep
    ELSE 0

\* s.split(sep) for a one-character separator
RECURSIVE SplitFrom(_, _, _)
SplitFrom(s, sep, from) ==
    LET k == IndexFrom(s, sep, from) IN
    IF k = 0 THEN <<SubSeq(s, from, Len(s))>>
    ELSE <<SubSeq(s, from, k - 1)>> \o SplitFrom(s, sep, k + 1)

Split(s, sep) == SplitFrom(s, sep, 1)

\* sep.join(parts)
RECURSIVE Join(_, _)
Join(parts, sep) ==
    IF parts = <<>> THEN <<>>
    ELSE IF Len(parts) = 1 THEN parts[1]
    ELSE parts[1] \o sep \o Join(Tail(parts), sep)

\* c in s
Contains(s, c) == \E k \in 1..Len(s) : s[k] = c

\* The list of the n values a function on 1..n holds: map(f, xs) is written
\* List([k \in 1..Len(xs) |-> f(xs[k])], Len(xs)).
List(f, n) == SubSeq(f, 1, n)


(***************************************************************************)
(* Identifier parser.                                                      *)
(***************************************************************************)
\* x.split('|')[0]
FirstAlternative(x) == Split(x, "|")[1]

\* the list 'coords' of miso_exon_to_coords before the hyphen test
ColonCoords(exon) ==
    LET parts == Split(exon, ":")
    IN  List([k \in 1..Len(parts) |-> FirstAlternative(parts[k])], Len(parts))

\* the exception miso_exon_to_coords raises on exon, "none" when it returns
miso_exon_to_coords_raises(exon) ==
    LET coords == ColonCoords(exon) IN
    IF exon = <<>> THEN "IndexError"
    ELSE IF Len(coords) < 2 THEN "IndexError"
    ELSE IF Contains(coords[2], "-")
         THEN IF Len(Split(coords[2], "-")) # 2 THEN "ValueError" ELSE "none"
    ELSE IF Len(coords) < 3 THEN "IndexError"
    ELSE "none"

MutExonToCoordsLastAlt(exon) ==
    LET strand == exon[Len(exon)]
        parts == Split(exon, ":")
        coords == List([k \in 1..Len(parts) |->
                           Split(parts[k], "|")[Len(Split(parts[k], "|"))]],
                       Len(parts))
    IN  IF Contains(coords[2], "-")
        THEN <<coords[1], Split(coords[2], "-")[1],
               Split(coords[2], "-")[2], strand>>
        ELSE <<coords[1], coords[2], coords[3], strand>>

\* (chrom, start, stop, strand) of one exon field
miso_exon_to_coords(exon) ==
    LET strand == exon[Len(exon)]
        coords == ColonCoords(exon)
    IN  IF Contains(coords[2], "-")
        THEN <<coords[1], Split(coords[2], "-")[1],
               Split(coords[2], "-")[2], strand>>
        ELSE <<coords[1], coords[2], coords[3], strand>>

\* 'exon:{}:{}-{}:{}'.format(*coords)
miso_exon_to_gencode_exon(exon) ==
    LET c == miso_exon_to_coords(exon)
    IN  <<"e", "x", "o", "n", ":">> \o c[1] \o <<":">> \o c[2] \o <<"-">>
            \o c[3] \o <<":">> \o c[4]

\* the exon identifiers of the '@'-separated fields, in order
miso_id_to_exon_ids(miso_id) ==
    LET fields == Split(miso_id, "@")
    IN  List([k \in 1..Len(fields) |-> miso_exon_to_gencode_exon(fields[k])],
             Len(fields))

(***************************************************************************)
(* Exon and intron interval builder.                                       *)
(***************************************************************************)
\* pybedtools.Interval(chrom, start, stop, strand=strand, name=miso_id,
\*                     score='1000')
Interval(chrom, start, stop, strand, name) ==
    [chrom |-> chrom, start |-> start, stop |-> stop, strand |-> strand,
     name |-> name, score |-> "1000"]

Min(a, b) == IF a < b THEN a ELSE b

\* zip(xs, ys) stops at the shorter list
ZipLen(xs, ys) == Min(Len(xs), Len(ys))

\* zip(*rows): one column per position that every row has
ZipStar(rows) ==
    IF rows = <<>> THEN <<>>
    ELSE LET width == CHOOSE w \in {Len(rows[i]) : i \in 1..Len(rows)} :
                          \A i \in 1..Len(rows) : w <= Len(rows[i])
         IN  List([p \in 1..width |->
                      List([i \in 1..Len(rows) |-> rows[i][p]], Len(rows))],
                  width)

MutBedtoolRaisesOnlyWhenLonger(ids, single_exon_coords) ==
    IF Len(single_exon_coords) > Len(ids) THEN "ValueError: count"
    ELSE IF \E i \in 1..ZipLen(ids, single_exon_coords) :
                ~IsInt(single_exon_coords[i][2]) \/ ~IsInt(single_exon_coords[i][3])
         THEN "ValueError: int"
    ELSE "none"

\* the exception coords_to_bedtool raises, "none" when it returns
coords_to_bedtool_raises(ids, single_exon_coords) ==
    IF Len(single_exon_coords) # Len(ids) THEN "ValueError: count"
    ELSE IF \E i \in 1..Len(ids) : ~IsInt(single_exon_coords[i][2])
                                   \/ ~IsInt(single_exon_coords[i][3])
         THEN "ValueError: int"
    ELSE "none"

MutBedtoolNoBaseZero(ids, single_exon_coords) ==
    List([i \in 1..ZipLen(ids, single_exon_coords) |->
             LET exon == single_exon_coords[i]
             IN  Interval(exon[1], Int_(exon[2]), Int_(exon[3]), exon[4], ids[i])],
         ZipLen(ids, single_exon_coords))

\* the intervals of one exon position, one per event
coords_to_bedtool(ids, single_exon_coords) ==
    List([i \in 1..ZipLen(ids, single_exon_coords) |->
             LET exon == single_exon_coords[i]
             IN  Interval(exon[1], Int_(exon[2]) - 1, Int_(exon[3]), exon[4],
                          ids[i])],
         ZipLen(ids, single_exon_coords))

\* the name of the sequence read for an interval: 'chrom:start-end(strand)'
SeqName(interval) ==
    interval.chrom \o <<":">> \o Str(interval.start) \o <<"-">>
        \o Str(interval.stop) \o <<"(">> \o interval.strand \o <<")">>

\* s.rstrip(c)
RECURSIVE RStrip(_, _)
RStrip(s, c) ==
    IF s # <<>> /\ s[Len(s)] = c THEN RStrip(SubSeq(s, 1, Len(s) - 1), c) ELSE s

\* the exception seq_name_to_exon_id raises, "none" when it returns
seq_name_to_exon_id_raises(seq_name) ==
    LET halves == Split(seq_name, "(")
        chr_start_stop == Split(halves[1], ":")
        startstop == Split(chr_start_stop[2], "-")
    IN  IF Len(halves) # 2 THEN "ValueError: unpack"
        ELSE IF Len(chr_start_stop) # 2 THEN "ValueError: unpack"
        ELSE IF Len(startstop) # 2 THEN "ValueError: unpack"
        ELSE IF ~IsInt(startstop[1]) THEN "ValueError: int"
        ELSE "none"

MutSeqNameKeepsStart(seq_name) ==
    LET halves == Split(seq_name, "(")
        chr_start_stop == Split(halves[1], ":")
        startstop == Split(chr_start_stop[2], "-")
    IN  <<"e", "x", "o", "n", ":">> \o chr_start_stop[1] \o <<":">>
            \o Str(Int_(startstop[1])) \o <<"-">> \o startstop[2]
            \o <<":">> \o RStrip(halves[2], ")")

\* the exon identifier of a sequence name, the start made 1-based again
seq_name_to_exon_id(seq_name) ==
    LET halves == Split(seq_name, "(")
        chr_start_stop == Split(halves[1], ":")
        startstop == Split(chr_start_stop[2], "-")
    IN  <<"e", "x", "o", "n", ":">> \o chr_start_stop[1] \o <<":">>
            \o Str(Int_(startstop[1]) + 1) \o <<"-">> \o startstop[2]
            \o <<":">> \o RStrip(halves[2], ")")

\* exons[(intron_number - 1):(intron_number + 1)]
FlankingExons(exons, intron_number) ==
    SubSeq(exons, intron_number, Min(intron_number + 1, Len(exons)))

\* One pass of the loop of coords_to_intron_bedtool.  st holds the locals that
\* outlive a pass: the intervals so far, start and stop (bound once a pass has
\* assigned them) and the exception that ended the loop.
IntronPass(st, miso_id, exons, intron_number) ==
    LET pair == FlankingExons(exons, intron_number) IN
    IF Len(pair) # 2 THEN [st EXCEPT !.raised = "ValueError: unpack"] ELSE
    LET exon1 == pair[1]
        exon2 == pair[2]
        strand == exon1[4]
        assigned == strand \in {"+", "-"}
        start_s == IF strand = "+" THEN exon1[3] ELSE exon2[3]
        stop_s == IF strand = "+" THEN exon2[2] ELSE exon1[2]
    IN
    IF ~assigned /\ ~st.bound THEN [st EXCEPT !.raised = "UnboundLocalError"]
    ELSE IF assigned /\ (~IsInt(start_s) \/ ~IsInt(stop_s))
         THEN [st EXCEPT !.raised = "ValueError: int"]
    ELSE
    LET start == (IF assigned THEN Int_(start_s) ELSE st.start) - 1
        stop == IF assigned THEN Int_(stop_s) ELSE st.stop
        lo == IF start > stop THEN stop ELSE start
        hi == IF start > stop THEN start ELSE stop
    IN  [ivs |-> Append(st.ivs, Interval(exon1[1], lo, hi, strand, miso_id)),
         start |-> lo, stop |-> hi, bound |-> TRUE, raised |-> "none"]

RECURSIVE IntronLoop(_, _, _, _, _)
IntronLoop(st, ids, coords, intron_number, i) ==
    IF i > ZipLen(ids, coords) \/ st.raised # "none" THEN st
    ELSE IntronLoop(IntronPass(st, ids[i], coords[i], intron_number),
                    ids, coords, intron_number, i + 1)

IntronRun(ids, coords, intron_number) ==
    IntronLoop([ivs |-> <<>>, start |-> 0, stop |-> 0, bound |-> FALSE,
                raised |-> "none"], ids, coords, intron_number, 1)

\* the exception coords_to_intron_bedtool raises, "none" when it returns
coords_to_intron_bedtool_raises(ids, coords, intron_number) ==
    IntronRun(ids, coords, intron_number).raised

\* the intervals of one intron position
coords_to_intron_bedtool(ids, coords, intron_number) ==
    IntronRun(ids, coords, intron_number).ivs

(***************************************************************************)
(* SpliceAnnotator.__init__ (genome_fasta=None).                           *)
(***************************************************************************)
N_EXONS_SE == 3
N_EXONS_MXE == 4

\* self.n_exons for a splice type; 0 stands for None
NExonsOf(st) ==
    IF st = "SE" THEN N_EXONS_SE ELSE IF st = "MXE" THEN N_EXONS_MXE ELSE 0

\* the first exception among the results rs of a map, "none" when there is none
FirstRaised(rs) ==
    IF \A k \in 1..Len(rs) : rs[k] = "none" THEN "none"
    ELSE rs[CHOOSE k \in 1..Len(rs) :
                /\ rs[k] # "none"
                /\ \A j \in 1..(k - 1) : rs[j] = "none"]

\* the exception parsing one identifier raises
ParseRaises(miso_id) ==
    LET fields == Split(miso_id, "@")
    IN  FirstRaised(List([k \in 1..Len(fields) |->
                             miso_exon_to_coords_raises(fields[k])], Len(fields)))

\* map(self.miso_exon_to_coords, x.split('@'))
ExonCoordsOf(miso_id) ==
    LET fields == Split(miso_id, "@")
    IN  List([k \in 1..Len(fields) |-> miso_exon_to_coords(fields[k])],
             Len(fields))

\* The fields the constructor assigns, in the order it assigns them, and the
\* exception that ends it; a field not reached stays empty.
ConstructResult(ids, st) ==
    LET n == NExonsOf(st)
        m == Len(ids)
        parse == FirstRaised(List([i \in 1..m |-> ParseRaises(ids[i])], m))
        e_ids == List([i \in 1..m |-> miso_id_to_exon_ids(ids[i])], m)
        e_coords == List([i \in 1..m |-> ExonCoordsOf(ids[i])], m)
        columns == ZipStar(e_coords)
        w == Len(columns)
        bed == FirstRaised(List([p \in 1..w |->
                                    coords_to_bedtool_raises(ids, columns[p])], w))
        e_bedtools == List([p \in 1..w |-> coords_to_bedtool(ids, columns[p])], w)
        intron == IF n = 0 THEN "TypeError"
                  ELSE FirstRaised(List([k \in 1..(n - 1) |->
                           coords_to_intron_bedtool_raises(ids, e_coords, k)],
                           n - 1))
        base == [n_exons |-> n, exon_ids |-> <<>>, exon_coords |-> <<>>,
                 exon_bedtools |-> <<>>, intron_bedtools |-> <<>>,
                 raised |-> "none"]
    IN  IF parse # "none" THEN [base EXCEPT !.raised = parse]
        ELSE IF bed # "none"
             THEN [base EXCEPT !.exon_ids = e_ids, !.exon_coords = e_coords,
                               !.raised = bed]
        ELSE IF intron # "none"
             THEN [base EXCEPT !.exon_ids = e_ids, !.exon_coords = e_coords,
                               !.exon_bedtools = e_bedtools, !.raised = intron]
        ELSE [base EXCEPT !.exon_ids = e_ids, !.exon_coords = e_coords,
                          !.exon_bedtools = e_bedtools,
                          !.intron_bedtools =
                              List([k \in 1..(n - 1) |->
                                       coords_to_intron_bedtool(ids, e_coords, k)],
                                   n - 1)]

(***************************************************************************)
(* Inputs.  An exon field is written from its parts, so that what the      *)
(* parser returns can be compared with what was written.                   *)
(***************************************************************************)
\* events handed to the constructor
MaxEvents == 2
\* coordinate tuples handed to a direct call of coords_to_bedtool
MaxCoords == 3

Chrom == <<"c", "h", "r", "1">>

\* the sequences over S of length lo..hi
SeqsOf(S, lo, hi) == UNION {[1..n -> S] : n \in lo..hi}

\* [chrom, starts, ends, hyphen, strand] written as chrom:a|b:c|d:strand, or
\* chrom:a|b-c|d:strand when hyphen
RenderExon(x) ==
    x.chrom \o <<":">> \o Join(x.starts, <<"|">>)
        \o (IF x.hyphen THEN <<"-">> ELSE <<":">>)
        \o Join(x.ends, <<"|">>) \o <<":">> \o <<x.strand>>

\* the identifier the annotation gives the exon written as x
ExonIdOf(x) ==
    <<"e", "x", "o", "n", ":">> \o x.chrom \o <<":">> \o x.starts[1] \o <<"-">>
        \o x.ends[1] \o <<":">> \o <<x.strand>>

RenderId(xs) ==
    Join(List([k \in 1..Len(xs) |-> RenderExon(xs[k])], Len(xs)), <<"@">>)

CoordChoices == {Str(100), Str(200), <<"N", "A">>}

Alternatives == SeqsOf(CoordChoices, 1, MaxAlts)

ExonSpecs ==
    [chrom : {Chrom}, starts : Alternatives, ends : Alternatives,
     hyphen : BOOLEAN, strand : {"+", "-"}]

PlainExon(lo, hi, strand) ==
    [chrom |-> Chrom, starts |-> <<Str(lo)>>, ends |-> <<Str(hi)>>,
     hyphen |-> FALSE, strand |-> strand]

\* the shapes of the docstrings: SE/MXE, alt 5', alt 3', retained intron
IdFieldChoices ==
    { PlainExon(100, 200, "+"),
      [PlainExon(300, 400, "-") EXCEPT !.ends = <<Str(400), Str(450)>>],
      [PlainExon(500, 600, "-") EXCEPT !.starts = <<Str(500), Str(550)>>],
      [PlainExon(700, 800, "+") EXCEPT !.hyphen = TRUE] }

IdSpecs == SeqsOf(IdFieldChoices, 1, MaxIdFields)

\* The k-th exon of the n exons of an event: exon j spans 200j-100..200j, and a
\* descending event lists its exons from the genomically highest down.
EventExon(e, k) ==
    LET j == IF e.desc THEN e.n + 1 - k ELSE k
        plain == PlainExon(200 * j - 100, 200 * j, e.strand)
    IN  IF e.variant = "alt" /\ k = 2
        THEN [plain EXCEPT !.ends = <<Str(200 * j), Str(200 * j + 50)>>]
        ELSE IF e.variant = "nonnum" /\ k = 1
        THEN [plain EXCEPT !.starts = <<<<"N", "A">>>>]
        ELSE plain

EventId(e) == RenderId([k \in 1..e.n |-> EventExon(e, k)])

\* Genomic order on '+', transcript order on '-' (the doctest's shapes), and a
\* '+' event listed downwards; then one event with an alternative end and one
\* with a coordinate that is no number, and one whose strand is written '.' as
\* annotations write an unknown strand.  An SE annotator given a 4-exon event,
\* or an MXE annotator a 3-exon one, has the wrong number of fields.
EventSpecs ==
    {[strand |-> sd[1], n |-> n, desc |-> sd[2], variant |-> "plain"] :
        sd \in {<<"+", FALSE>>, <<"-", TRUE>>, <<"+", TRUE>>},
        n \in {N_EXONS_SE, N_EXONS_MXE}}
    \cup {[strand |-> "+", n |-> N_EXONS_SE, desc |-> FALSE, variant |-> v] :
        v \in {"alt", "nonnum"}}
    \cup {[strand |-> ".", n |-> N_EXONS_SE, desc |-> FALSE, variant |-> "plain"]}

EventIds == {EventId(e) : e \in EventSpecs}

SpliceTypes == {"SE", "MXE", "RI"}

CoordTuples ==
    { <<Chrom, Str(100), Str(200), "+">>, <<Chrom, Str(300), Str(400), "-">> }

\* the coords of the doctest of coords_to_intron_bedtool
DoctestCoords ==
    << << <<Chrom, Str(100), Str(200), "+">>, <<Chrom, Str(300), Str(400), "+">>,
          <<Chrom, Str(500), Str(600), "+">> >>,
       << <<Chrom, Str(500), Str(600), "-">>, <<Chrom, Str(300), Str(400), "-">>,
          <<Chrom, Str(100), Str(200), "-">> >> >>

\* the exon of the field written as x, built as the annotator builds it:
\* parsed by miso_exon_to_coords, then made an interval by coords_to_bedtool
ExonIntervalOf(x) ==
    coords_to_bedtool(<<RenderExon(x)>>, <<miso_exon_to_coords(RenderExon(x))>>)[1]

Builds(x) ==
    /\ miso_exon_to_coords_raises(RenderExon(x)) = "none"
    /\ coords_to_bedtool_raises(<<RenderExon(x)>>,
                                <<miso_exon_to_coords(RenderExon(x))>>) = "none"

\* written exons whose intervals are named: the exon fields above, exons whose
\* start loses or gains a digit when it is made 0-based, one with a start
\* written with a leading zero and one that starts at 0
NamedExons ==
    {x \in ExonSpecs
           \cup {PlainExon(1, 9, "+"), PlainExon(10, 99, "-"),
                 PlainExon(1000, 2000, "+"), PlainExon(0, 100, "+"),
                 [PlainExon(100, 200, "-") EXCEPT !.starts = <<<<"0", "5">>>>]} :
        Builds(x)}

(***************************************************************************)
(* Annotation lookup and mapping tables: convert_miso_ids_to_everything.   *)
(* The database is what gffutils.FeatureDB answers: features by id, and    *)
(* the transcripts of a strand that overlap a region.                      *)
(***************************************************************************)
\* x.split('.')[0]
StripVersion(x) == Split(x, ".")[1]

\* set.update(values); a set is kept as the list of its members in the order
\* they came in
RECURSIVE SetUpdate(_, _)
SetUpdate(members, values) ==
    IF values = <<>> THEN members
    ELSE SetUpdate(IF \E k \in 1..Len(members) : members[k] = Head(values)
                   THEN members ELSE Append(members, Head(values)),
                   Tail(values))

Members(members) == {members[k] : k \in 1..Len(members)}

Reverse(xs) == List([k \in 1..Len(xs) |-> xs[Len(xs) + 1 - k]], Len(xs))

NoAttributes ==
    [gencode |-> <<>>, ensembl |-> <<>>, gene_name |-> <<>>, gene_type |-> <<>>,
     gencode_transcript |-> <<>>, ensembl_transcript |-> <<>>]

\* the six updates made from the attributes of an exon or of a transcript
UpdateFrom(acc, attributes) ==
    LET gene_id == attributes.gene_id
        transcript_id == attributes.transcript_id
    IN  [gencode |-> SetUpdate(acc.gencode, gene_id),
         ensembl |-> SetUpdate(acc.ensembl,
                        List([k \in 1..Len(gene_id) |-> StripVersion(gene_id[k])],
                             Len(gene_id))),
         gene_name |-> SetUpdate(acc.gene_name, attributes.gene_name),
         gene_type |-> SetUpdate(acc.gene_type, attributes.gene_type),
         gencode_transcript |-> SetUpdate(acc.gencode_transcript, transcript_id),
         ensembl_transcript |->
             SetUpdate(acc.ensembl_transcript,
                 List([k \in 1..Len(transcript_id) |->
                          StripVersion(transcript_id[k])], Len(transcript_id)))]

RECURSIVE UpdateFromAll(_, _)
UpdateFromAll(acc, features) ==
    IF features = <<>> THEN acc
    ELSE UpdateFromAll(UpdateFrom(acc, Head(features).attributes), Tail(features))

\* db.features_of_type('transcript', strand=strand, limit=(chrom, start, stop))
FeaturesOfTypeTranscript(d, strand, chrom, start, stop) ==
    SelectSeq(d.transcripts,
              LAMBDA t : /\ t.strand = strand
                         /\ t.chrom = chrom
                         /\ t.start <= stop
                         /\ t.end >= start)

\* the except branch: the transcripts that overlap the exon named e; whatever
\* is raised in it is caught and the exon passed over
OverlappingTranscripts(d, e) ==
    LET parts == Split(e, ":")
        startstop == Split(parts[3], "-")
    IN  IF Len(parts) # 4 THEN <<>>
        ELSE IF Len(startstop) # 2 THEN <<>>
        ELSE IF ~IsInt(startstop[1]) \/ ~IsInt(startstop[2]) THEN <<>>
        ELSE FeaturesOfTypeTranscript(d, parts[4], parts[2],
                                      Int_(startstop[1]), Int_(startstop[2]))

MutLookupWithoutFallback(d, acc, e) ==
    IF e \in DOMAIN d.exons THEN UpdateFrom(acc, d.exons[e]) ELSE acc

\* one pass of "for e in exons"
LookupExon(d, acc, e) ==
    IF e \in DOMAIN d.exons THEN UpdateFrom(acc, d.exons[e])
    ELSE UpdateFromAll(acc, OverlappingTranscripts(d, e))

RECURSIVE LookupExons(_, _, _)
LookupExons(d, acc, exons) ==
    IF exons = <<>> THEN acc
    ELSE LookupExons(d, LookupExon(d, acc, Head(exons)), Tail(exons))

\* the six sets of one event when "for e in exons" ends
EventAttributes(d, miso_id) ==
    LookupExons(d, NoAttributes, miso_id_to_exon_ids(miso_id))

\* d[key] = value
Put(d, key, value) ==
    [x \in DOMAIN d \cup {key} |-> IF x = key THEN value ELSE d[x]]

\* d[key].append(value) on a defaultdict(list)
AppendTo(d, key, value) ==
    [x \in DOMAIN d \cup {key} |->
        IF x # key THEN d[x]
        ELSE IF key \in DOMAIN d THEN Append(d[key], value) ELSE <<value>>]

RECURSIVE AppendToEach(_, _, _)
AppendToEach(d, keys, value) ==
    IF keys = <<>> THEN d
    ELSE AppendToEach(AppendTo(d, Head(keys), value), Tail(keys), value)

\* an entry of a table event -> values: ','.join(values), or np.nan
Joined(values) == [nan |-> FALSE, text |-> Join(values, <<",">>)]

NaN == [nan |-> TRUE, text |-> <<>>]

EmptyDict == [x \in {} |-> <<>>]

EmptyMisoTos ==
    [gencode_gene |-> EmptyDict, ensembl_gene |-> EmptyDict,
     gene_name |-> EmptyDict, gene_type |-> EmptyDict,
     gencode_transcript |-> EmptyDict, ensembl_transcript |-> EmptyDict]

EmptyToMisos ==
    [ensembl_gene |-> EmptyDict, gene_name |-> EmptyDict, gencode_gene |-> EmptyDict]

\* The tables after the "if len(gencode) > 0" of one event.  order is the order
\* in which the sets are iterated, which Python leaves to the hashes of their
\* members: the order the members came in, or its reverse.
TablesAfter(tos, tom, miso_id, acc, reversed) ==
    LET Order(xs) == IF reversed THEN Reverse(xs) ELSE xs IN
    IF Len(acc.gencode) > 0
    THEN [to_misos |->
              [ensembl_gene |-> AppendToEach(tom.ensembl_gene, acc.ensembl, miso_id),
               gene_name |-> AppendToEach(tom.gene_name, acc.gene_name, miso_id),
               gencode_gene |-> AppendToEach(tom.gencode_gene, acc.gencode, miso_id)],
          miso_tos |->
              [gencode_gene |->
                   Put(tos.gencode_gene, miso_id, Joined(Order(acc.gencode))),
               ensembl_gene |->
                   Put(tos.ensembl_gene, miso_id, Joined(Order(acc.ensembl))),
               gene_name |->
                   Put(tos.gene_name, miso_id, Joined(Order(acc.gene_name))),
               gene_type |->
                   Put(tos.gene_type, miso_id, Joined(Order(acc.gene_type))),
               gencode_transcript |->
                   Put(tos.gencode_transcript, miso_id,
                       Joined(Order(acc.gencode_transcript))),
               ensembl_transcript |->
                   Put(tos.ensembl_transcript, miso_id,
                       Joined(Order(acc.ensembl_transcript)))]]
    ELSE [to_misos |-> tom,
          miso_tos |->
              [tos EXCEPT !.gencode_gene = Put(tos.gencode_gene, miso_id, NaN),
                          !.ensembl_gene = Put(tos.ensembl_gene, miso_id, NaN),
                          !.gene_name = Put(tos.gene_name, miso_id, NaN),
                          !.gene_type = Put(tos.gene_type, miso_id, NaN)]]

\* The features of the databases: three exons of two genes (the two versions
\* of gene G1 share one ensembl id), a '+' transcript over the second exon only
\* and a '-' transcript over all three.
Attributes(gene_id, gene_name, gene_type, transcript_id) ==
    [gene_id |-> <<gene_id>>, gene_name |-> <<gene_name>>,
     gene_type |-> <<gene_type>>, transcript_id |-> <<transcript_id>>]

StoreExons ==
    [x \in {ExonIdOf(PlainExon(100, 200, "+")),
            ExonIdOf(PlainExon(300, 400, "+")),
            ExonIdOf(PlainExon(500, 600, "+"))} |->
        IF x = ExonIdOf(PlainExon(100, 200, "+"))
        THEN Attributes(<<"G", "1", ".", "1">>, <<"N", "1">>, <<"p", "c">>,
                        <<"T", "1", ".", "1">>)
        ELSE IF x = ExonIdOf(PlainExon(300, 400, "+"))
        THEN Attributes(<<"G", "1", ".", "2">>, <<"N", "1">>, <<"p", "c">>,
                        <<"T", "2", ".", "1">>)
        ELSE Attributes(<<"G", "2", ".", "1">>, <<"N", "2">>, <<"l", "n", "c">>,
                        <<"T", "3", ".", "1">>)]

StoreTranscripts ==
    << [chrom |-> Chrom, start |-> 250, end |-> 450, strand |-> <<"+">>,
        attributes |-> Attributes(<<"G", "3", ".", "1">>, <<"N", "3">>,
                                  <<"p", "c">>, <<"T", "4", ".", "1">>)],
       [chrom |-> Chrom, start |-> 50, end |-> 650, strand |-> <<"-">>,
        attributes |-> Attributes(<<"G", "4", ".", "1">>, <<"N", "4">>,
                                  <<"l", "n", "c">>, <<"T", "5", ".", "1">>)] >>

\* the subsequences of xs
RECURSIVE SubSeqs(_)
SubSeqs(xs) ==
    IF xs = <<>> THEN {<<>>}
    ELSE LET rest == SubSeqs(Tail(xs))
         IN  rest \cup {<<Head(xs)>> \o r : r \in rest}

Databases ==
    {[exons |-> [x \in present |-> StoreExons[x]], transcripts |-> ts] :
        present \in SUBSET DOMAIN StoreExons, ts \in SubSeqs(StoreTranscripts)}

NoDatabase == [exons |-> EmptyDict, transcripts |-> <<>>]

\* events of two exons: on '+', on '-', and one whose first start is no number
ConvertEvents ==
    { <<PlainExon(100, 200, "+"), PlainExon(300, 400, "+")>>,
      <<PlainExon(300, 400, "+"), PlainExon(500, 600, "+")>>,
      <<PlainExon(300, 400, "-"), PlainExon(100, 200, "-")>>,
      <<[PlainExon(100, 200, "+") EXCEPT !.starts = <<<<"N", "A">>>>],
        PlainExon(500, 600, "+")>> }

ConvertIds == {RenderId(xs) : xs \in ConvertEvents}

NoConversion ==
    /\ db = NoDatabase
    /\ event_index = 0
    /\ miso_tos = EmptyMisoTos
    /\ to_misos = EmptyToMisos

(***************************************************************************)
(* The annotator: construction, then direct calls of its methods.          *)
(***************************************************************************)
NoCall == [op |-> "none"]

\* SpliceAnnotator(miso_ids, splice_type, genome) is entered: lines 35-36 have
\* stored the two arguments
Init ==
    /\ pc = "new"
    /\ miso_ids \in SeqsOf(EventIds, 0, MaxEvents)
    /\ splice_type \in SpliceTypes
    /\ n_exons = 0
    /\ exon_ids = <<>>
    /\ exon_coords = <<>>
    /\ exon_bedtools = <<>>
    /\ intron_bedtools = <<>>
    /\ raised = "none"
    /\ call = NoCall
    /\ NoConversion

\* the rest of __init__, lines 52-69
Construct ==
    /\ pc = "new"
    /\ LET r == ConstructResult(miso_ids, splice_type) IN
        /\ n_exons' = r.n_exons
        /\ exon_ids' = r.exon_ids
        /\ exon_coords' = r.exon_coords
        /\ exon_bedtools' = r.exon_bedtools
        /\ intron_bedtools' = r.intron_bedtools
        /\ raised' = r.raised
        /\ pc' = IF r.raised = "none" THEN "ready" ELSE "failed"
    /\ UNCHANGED <<miso_ids, splice_type, call, conversion>>

object == <<miso_ids, splice_type, n_exons, exon_ids, exon_coords,
            exon_bedtools, intron_bedtools>>

\* self.coords_to_bedtool(cs)
CallCoordsToBedtool ==
    /\ pc = "ready"
    /\ \E cs \in SeqsOf(CoordTuples, 0, MaxCoords) :
        LET e == coords_to_bedtool_raises(miso_ids, cs) IN
        /\ call' = [op |-> "coords_to_bedtool", arg |-> cs, raised |-> e,
                    ret |-> IF e = "none" THEN coords_to_bedtool(miso_ids, cs)
                            ELSE <<>>]
        /\ raised' = e
    /\ pc' = "called"
    /\ UNCHANGED <<object, conversion>>

\* self.coords_to_intron_bedtool(cs, k)
CallCoordsToIntronBedtool ==
    /\ pc = "ready"
    /\ \E cs \in {DoctestCoords, exon_coords}, k \in 1..(N_EXONS_SE - 1) :
        LET e == coords_to_intron_bedtool_raises(miso_ids, cs, k) IN
        /\ call' = [op |-> "coords_to_intron_bedtool", arg |-> cs,
                    intron_number |-> k, raised |-> e,
                    ret |-> IF e = "none"
                            THEN coords_to_intron_bedtool(miso_ids, cs, k)
                            ELSE <<>>]
        /\ raised' = e
    /\ pc' = "called"
    /\ UNCHANGED <<object, conversion>>

\* the caller takes the result (or handles the exception); the methods leave
\* the annotator as it was
Return ==
    /\ pc = "called"
    /\ pc' = "ready"
    /\ call' = NoCall
    /\ raised' = "none"
    /\ UNCHANGED <<object, conversion>>

Next ==
    Construct \/ CallCoordsToBedtool \/ CallCoordsToIntronBedtool \/ Return

Spec == Init /\ [][Next]_vars

(***************************************************************************)
(* The parser alone, applied to written exon fields and identifiers.       *)
(***************************************************************************)
InitParse ==
    /\ pc = "calling"
    /\ miso_ids = <<>>
    /\ splice_type = "none"
    /\ n_exons = 0
    /\ exon_ids = <<>>
    /\ exon_coords = <<>>
    /\ exon_bedtools = <<>>
    /\ intron_bedtools = <<>>
    /\ raised = "none"
    /\ call \in {[op |-> "miso_exon_to_coords", written |-> x,
                  arg |-> RenderExon(x)] : x \in ExonSpecs}
           \cup {[op |-> "miso_id_to_exon_ids", written |-> xs,
                  arg |-> RenderId(xs)] : xs \in IdSpecs}
           \cup {[op |-> "seq_name_to_exon_id", written |-> x,
                  arg |-> SeqName(ExonIntervalOf(x))] : x \in NamedExons}
    /\ NoConversion

\* miso_exon_to_coords(exon)
RunMisoExonToCoords ==
    /\ pc = "calling"
    /\ call.op = "miso_exon_to_coords"
    /\ LET e == miso_exon_to_coords_raises(call.arg) IN
        /\ call' = [op |-> call.op, written |-> call.written, arg |-> call.arg,
                    ret |-> IF e = "none" THEN miso_exon_to_coords(call.arg)
                            ELSE <<>>]
        /\ raised' = e
    /\ pc' = "returned"
    /\ UNCHANGED <<object, conversion>>

\* miso_id_to_exon_ids(miso_id)
RunMisoIdToExonIds ==
    /\ pc = "calling"
    /\ call.op = "miso_id_to_exon_ids"
    /\ LET e == ParseRaises(call.arg) IN
        /\ call' = [op |-> call.op, written |-> call.written, arg |-> call.arg,
                    ret |-> IF e = "none" THEN miso_id_to_exon_ids(call.arg)
                            ELSE <<>>]
        /\ raised' = e
    /\ pc' = "returned"
    /\ UNCHANGED <<object, conversion>>

\* seq_name_to_exon_id(seq_name)
RunSeqNameToExonId ==
    /\ pc = "calling"
    /\ call.op = "seq_name_to_exon_id"
    /\ LET e == seq_name_to_exon_id_raises(call.arg) IN
        /\ call' = [op |-> call.op, written |-> call.written, arg |-> call.arg,
                    ret |-> IF e = "none" THEN seq_name_to_exon_id(call.arg)
                            ELSE <<>>]
        /\ raised' = e
    /\ pc' = "returned"
    /\ UNCHANGED <<object, conversion>>

NextParse == RunMisoExonToCoords \/ RunMisoIdToExonIds \/ RunSeqNameToExonId

SpecParse == InitParse /\ [][NextParse]_vars

(***************************************************************************)
(* Isoform resolver.                                                       *)
(***************************************************************************)
\* transcripts in the annotation that an exon may belong to
NTranscripts == 2

TranscriptNames == <<"A", "B", "C", "D", "E">>

TranscriptIds == {TranscriptNames[k] : k \in 1..NTranscripts}

MutIsoformsNearFarSwapped(st, transcripts) ==
    IF st = "SE"
    THEN [isoform1s |-> transcripts[1] \cap transcripts[3],
          isoform2s |-> transcripts[2] \cap (transcripts[1] \cap transcripts[3]),
          none |-> FALSE]
    ELSE IF st = "MXE"
    THEN [isoform1s |-> transcripts[1] \cap transcripts[2] \cap transcripts[4],
          isoform2s |-> transcripts[1] \cap transcripts[3] \cap transcripts[4],
          none |-> FALSE]
    ELSE [isoform1s |-> {}, isoform2s |-> {}, none |-> TRUE]

MutSkippedExonNotWithinFlanks(st, transcripts) ==
    IF st = "SE"
    THEN [isoform1s |-> transcripts[1] \cap transcripts[3],
          isoform2s |-> transcripts[2], none |-> FALSE]
    ELSE IF st = "MXE"
    THEN [isoform1s |-> transcripts[1] \cap transcripts[3] \cap transcripts[4],
          isoform2s |-> transcripts[1] \cap transcripts[2] \cap transcripts[4],
          none |-> FALSE]
    ELSE [isoform1s |-> {}, isoform2s |-> {}, none |-> TRUE]

\* (isoform1s, isoform2s) of the transcripts of each exon position; none when
\* the splice type is neither SE nor MXE and the pair is (None, None)
splice_type_isoforms(st, transcripts) ==
    IF st = "SE"
    THEN [isoform1s |-> transcripts[1] \cap transcripts[3],
          isoform2s |-> transcripts[2] \cap (transcripts[1] \cap transcripts[3]),
          none |-> FALSE]
    ELSE IF st = "MXE"
    THEN [isoform1s |-> transcripts[1] \cap transcripts[3] \cap transcripts[4],
          isoform2s |-> transcripts[1] \cap transcripts[2] \cap transcripts[4],
          none |-> FALSE]
    ELSE [isoform1s |-> {}, isoform2s |-> {}, none |-> TRUE]

\* (isoform1, isoform2) of the exons (or CDS ids) of an event
splice_type_exons(st, exons) ==
    IF st = "SE"
    THEN [isoform1 |-> <<exons[1], exons[3]>>,
          isoform2 |-> <<exons[1], exons[2], exons[3]>>, none |-> FALSE]
    ELSE IF st = "MXE"
    THEN [isoform1 |-> <<exons[1], exons[2], exons[4]>>,
          isoform2 |-> <<exons[1], exons[3], exons[4]>>, none |-> FALSE]
    ELSE [isoform1 |-> <<>>, isoform2 |-> <<>>, none |-> TRUE]

MutOverlapNotRemoved(per_isoform) ==
    [isoform1s |-> per_isoform.isoform1s, isoform2s |-> per_isoform.isoform2s]

\* "Remove all overlapping isoforms" of isoform_translations
RemoveOverlap(per_isoform) ==
    LET intersect == per_isoform.isoform1s \cap per_isoform.isoform2s
    IN  [isoform1s |-> per_isoform.isoform1s \ intersect,
         isoform2s |-> per_isoform.isoform2s \ intersect]

\* ':'.join(['CDS', x.split('exon:')[1]]) for an exon id that starts with exon:
CdsId(exon_id) == <<"C", "D", "S", ":">> \o SubSeq(exon_id, 6, Len(exon_id))

ExonNames == {<<"e", "x", "o", "n", ":", DigitChars[k + 1]>> : k \in 1..N_EXONS_MXE}

\* x.startswith(prefix)
StartsWith(x, prefix) ==
    Len(prefix) <= Len(x) /\ SubSeq(x, 1, Len(prefix)) = prefix

\* sum(map(lambda x: x.startswith(c_id), cds_isoform)) > 0
InSpliceForm(c_id, cds_isoform) ==
    \E k \in 1..Len(cds_isoform) : StartsWith(cds_isoform[k], c_id)

\* One pass of "for t in transcripts", lines 540-567, in pass i of the loop
\* over the isoforms: cds is the ids of the CDS children of t in the order
\* asked for.  The pairs of cds_in_splice_form hold i itself, and the loop over
\* neighbouring pairs binds i and j to the first parts of each two.
TranslateTranscript(i, cds_isoform, cds) ==
    LET cds_in_splice_form ==
            SelectSeq(List([k \in 1..Len(cds) |-> <<i, cds[k]>>], Len(cds)),
                      LAMBDA pair : InSpliceForm(pair[2], cds_isoform))
        n == Len(cds_in_splice_form)
        correct_number_of_cds == n = Len(cds_isoform)
        cds_in_correct_order ==
            \A k \in 1..(n - 1) :
                cds_in_splice_form[k][1] + 1 = cds_in_splice_form[k + 1][1]
        i_after == IF n >= 2 THEN cds_in_splice_form[n - 1][1] ELSE i
    IN  IF cds_in_correct_order /\ correct_number_of_cds
        THEN IF cds = <<>>
             THEN [raised |-> "IndexError", index |-> i_after, recorded |-> "nothing"]
             ELSE [raised |-> "none", index |-> i_after, recorded |-> "translation"]
        ELSE [raised |-> "none", index |-> i_after, recorded |-> "no translation"]

MaxCds == 4

\* the CDS's of the exons of an event, and one of another exon of the transcript
CdsNames ==
    {CdsId(x) : x \in ExonNames} \cup {<<"C", "D", "S", ":", "9">>}

\* the CDS children a transcript may have, in order: no feature twice
CdsChildren ==
    {cds \in SeqsOf(CdsNames, 0, MaxCds) :
        \A a, b \in 1..Len(cds) : a # b => cds[a] # cds[b]}

\* the CDS ids of isoform i + 1 of an event of splice type st
CdsIsoform(st, i) ==
    LET n == NExonsOf(st)
        cds_ids == List([k \in 1..n |->
                            CdsId(<<"e", "x", "o", "n", ":", DigitChars[k + 1]>>)], n)
        per_isoform == splice_type_exons(st, cds_ids)
    IN  IF i = 0 THEN per_isoform.isoform1 ELSE per_isoform.isoform2

IsoformCalls ==
    UNION {
        {[op |-> "splice_type_isoforms", splice_type |-> st, transcripts |-> ts] :
            ts \in [1..NExonsOf(st) -> SUBSET TranscriptIds]}
        \cup
        {[op |-> "isoform_translations", splice_type |-> st, transcripts |-> ts,
          exon_ids |-> [k \in 1..NExonsOf(st) |->
                           <<"e", "x", "o", "n", ":", DigitChars[k + 1]>>]] :
            ts \in [1..NExonsOf(st) -> SUBSET TranscriptIds]}
        \cup
        {[op |-> "splice_type_exons", splice_type |-> st, exons |-> xs] :
            xs \in [1..NExonsOf(st) -> ExonNames]}
        \cup
        {[op |-> "translate_transcript", splice_type |-> st, isoform |-> i,
          cds_isoform |-> CdsIsoform(st, i), cds |-> cds] :
            i \in {0, 1}, cds \in CdsChildren}
        : st \in {"SE", "MXE"}}

InitIso ==
    /\ pc = "calling"
    /\ call \in IsoformCalls
    /\ splice_type = call.splice_type
    /\ miso_ids = <<>>
    /\ n_exons = NExonsOf(call.splice_type)
    /\ exon_ids = <<>>
    /\ exon_coords = <<>>
    /\ exon_bedtools = <<>>
    /\ intron_bedtools = <<>>
    /\ raised = "none"
    /\ NoConversion

\* self.splice_type_isoforms(splice_type, transcripts)
RunSpliceTypeIsoforms ==
    /\ pc = "calling"
    /\ call.op = "splice_type_isoforms"
    /\ call' = [op |-> call.op, splice_type |-> call.splice_type,
                transcripts |-> call.transcripts,
                ret |-> splice_type_isoforms(call.splice_type, call.transcripts)]
    /\ pc' = "returned"
    /\ UNCHANGED <<object, raised, conversion>>

\* self.splice_type_exons(splice_type, exons)
RunSpliceTypeExons ==
    /\ pc = "calling"
    /\ call.op = "splice_type_exons"
    /\ call' = [op |-> call.op, splice_type |-> call.splice_type,
                exons |-> call.exons,
                ret |-> splice_type_exons(call.splice_type, call.exons)]
    /\ pc' = "returned"
    /\ UNCHANGED <<object, raised, conversion>>

\* One event of isoform_translations, lines 513-528: given the transcripts that
\* are parents of each exon, the transcripts and the CDS ids of each isoform.
ResolveEventIsoforms ==
    /\ pc = "calling"
    /\ call.op = "isoform_translations"
    /\ LET raw == splice_type_isoforms(splice_type, call.transcripts)
           cds_ids == List([k \in 1..Len(call.exon_ids) |->
                               CdsId(call.exon_ids[k])], Len(call.exon_ids))
       IN  call' = [op |-> call.op, splice_type |-> call.splice_type,
                    transcripts |-> call.transcripts, exon_ids |-> call.exon_ids,
                    raw |-> raw,
                    cds_ids_per_isoform |-> splice_type_exons(splice_type, cds_ids),
                    transcripts_per_isoform |-> RemoveOverlap(raw)]
    /\ pc' = "returned"
    /\ UNCHANGED <<object, raised, conversion>>

\* One transcript of one isoform of one event of isoform_translations, lines
\* 535-567: what is recorded for it, and under which index.
TranslateIsoformTranscript ==
    /\ pc = "calling"
    /\ call.op = "translate_transcript"
    /\ LET r == TranslateTranscript(call.isoform, call.cds_isoform, call.cds) IN
        /\ call' = [op |-> call.op, splice_type |-> call.splice_type,
                    isoform |-> call.isoform, cds_isoform |-> call.cds_isoform,
                    cds |-> call.cds, index |-> r.index, recorded |-> r.recorded]
        /\ raised' = r.raised
    /\ pc' = "returned"
    /\ UNCHANGED <<object, conversion>>

NextIso ==
    \/ RunSpliceTypeIsoforms
    \/ RunSpliceTypeExons
    \/ ResolveEventIsoforms
    \/ TranslateIsoformTranscript

SpecIso == InitIso /\ [][NextIso]_vars

(***************************************************************************)
(* The conversion of a batch of events against one database.               *)
(***************************************************************************)
\* convert_miso_ids_to_everything(miso_ids, db, event_type, out_dir) is entered
\* and has made its empty tables, lines 258-272
InitConvert ==
    /\ pc = "converting"
    /\ miso_ids \in SeqsOf(ConvertIds, 0, MaxEvents)
    /\ db \in Databases
    /\ event_index = 0
    /\ miso_tos = EmptyMisoTos
    /\ to_misos = EmptyToMisos
    /\ splice_type = "SE"
    /\ n_exons = N_EXONS_SE
    /\ exon_ids = <<>>
    /\ exon_coords = <<>>
    /\ exon_bedtools = <<>>
    /\ intron_bedtools = <<>>
    /\ raised = "none"
    /\ call = NoCall

\* one pass of "for i, miso_id in enumerate(miso_ids)", lines 278-367
ConvertEvent ==
    /\ pc = "converting"
    /\ event_index < Len(miso_ids)
    /\ \E reversed \in BOOLEAN :
        LET miso_id == miso_ids[event_index + 1]
            after == TablesAfter(miso_tos, to_misos, miso_id,
                                 EventAttributes(db, miso_id), reversed)
        IN  /\ miso_tos' = after.miso_tos
            /\ to_misos' = after.to_misos
    /\ event_index' = event_index + 1
    /\ UNCHANGED <<pc, object, raised, call, db>>

\* the loop is over and the tables are written, lines 369-393
WriteTables ==
    /\ pc = "converting"
    /\ event_index = Len(miso_ids)
    /\ pc' = "written"
    /\ UNCHANGED <<object, raised, call, conversion>>

NextConvert == ConvertEvent \/ WriteTables

SpecConvert == InitConvert /\ [][NextConvert]_vars

(***************************************************************************)
(* Properties of the parser (checked under SpecParse).                     *)
(***************************************************************************)
\* An exon field of one of the shapes MISO writes: chrom:start:end:strand with
\* alternatives in either coordinate, or chrom:start-end:strand.  A field with
\* alternatives before the hyphen, chrom:a|b-c:strand, is no such shape: its
\* first alternative ends before the hyphen.
MisoShaped(x) == ~(x.hyphen /\ Len(x.starts) > 1)

Constructed == pc \in {"ready", "called"}

\* the two exons flanking intron k of the event whose coordinates are exons,
\* the genomically lower one first
LowerFirst(exons, k) ==
    IF Int_(exons[k][2]) <= Int_(exons[k + 1][2])
    THEN <<exons[k], exons[k + 1]>>
    ELSE <<exons[k + 1], exons[k]>>

IsGapInterval(iv, exons, k) ==
    /\ iv.start = Int_(LowerFirst(exons, k)[1][3])
    /\ iv.stop = Int_(LowerFirst(exons, k)[2][2])

\* C1: the intron interval of every event and intron position starts at the end
\* coordinate of the genomically lower flanking exon and ends at the start
\* coordinate of the higher one; the doctest's '+' exons (100,200),(300,400)
\* give [200,300) and its '-' exons (500,600),(300,400) give [400,500).
C1_IntronIsGapBetweenExons ==
    /\ Constructed =>
        \A k \in 1..Len(intron_bedtools) : \A i \in 1..Len(intron_bedtools[k]) :
            IsGapInterval(intron_bedtools[k][i], exon_coords[i], k)
    /\ (/\ pc = "called"
        /\ call.op = "coords_to_intron_bedtool"
        /\ call.arg = DoctestCoords
        /\ call.intron_number = 1
        /\ Len(call.ret) = 2) =>
            /\ call.ret[1].start = 200 /\ call.ret[1].stop = 300
            /\ call.ret[2].start = 400 /\ call.ret[2].stop = 500

\* the fields of identifier number i of the annotator
FieldsOf(i) == Split(miso_ids[i], "@")

\* identifier number i has the wrong number of fields for the splice type, or a
\* start or end that is no number once the first alternative is taken
Malformed(i) ==
    \/ Len(FieldsOf(i)) # n_exons
    \/ \E k \in 1..Len(FieldsOf(i)) :
           \/ ~IsInt(miso_exon_to_coords(FieldsOf(i)[k])[2])
           \/ ~IsInt(miso_exon_to_coords(FieldsOf(i)[k])[3])

\* C3: an annotator of splice type SE or MXE given an identifier with the wrong
\* number of fields, or with a coordinate that is no number, fails, and nothing
\* is built from the coordinates of such an identifier.
C3_MalformedIdentifierRejected ==
    (/\ pc # "new"
     /\ splice_type \in {"SE", "MXE"}
     /\ \E i \in 1..Len(miso_ids) : Malformed(i)) =>
        /\ pc = "failed"
        /\ exon_bedtools = <<>>
        /\ intron_bedtools = <<>>

\* the interval coords_to_bedtool owes to the event named name for the tuple exon
ExonInterval(exon, name) ==
    [chrom |-> exon[1], start |-> Int_(exon[2]) - 1, stop |-> Int_(exon[3]),
     strand |-> exon[4], name |-> name, score |-> "1000"]

\* C8: coords_to_bedtool gives one interval per event, in event order, the i-th
\* being (chrom_i, start_i - 1, end_i, strand_i) named after the i-th identifier
\* with score 1000: for the columns the constructor hands it and for a direct
\* call that returns.
C8_OneExonIntervalPerEvent ==
    /\ \A p \in 1..Len(exon_bedtools) :
        /\ Len(exon_bedtools[p]) = Len(miso_ids)
        /\ \A i \in 1..Len(miso_ids) :
               exon_bedtools[p][i] = ExonInterval(exon_coords[i][p], miso_ids[i])
    /\ (pc = "called" /\ call.op = "coords_to_bedtool" /\ call.raised = "none") =>
        /\ Len(call.ret) = Len(miso_ids)
        /\ \A i \in 1..Len(miso_ids) :
            /\ call.ret[i] = ExonInterval(call.arg[i], miso_ids[i])
            /\ call.arg[i][2] = <<"1", "0", "0">> => call.ret[i].start = 99
            /\ call.arg[i][3] = <<"4", "0", "0">> => call.ret[i].stop = 400

\* a direct call has returned the intervals of two events with different tuples,
\* and the constructor has built the exon intervals of two different events
C8_Witness ==
    /\ pc = "called"
    /\ call.op = "coords_to_bedtool"
    /\ call.raised = "none"
    /\ Len(call.ret) = 2
    /\ call.arg[1] # call.arg[2]
    /\ miso_ids[1] # miso_ids[2]
    /\ Len(exon_bedtools) >= N_EXONS_SE
    /\ exon_bedtools[2][1] # exon_bedtools[2][2]

\* C9: coords_to_bedtool raises the count error, returning no intervals, whenever
\* it is given a number of tuples other than the number of identifiers of the
\* annotator, and returns only when the two numbers are equal.
C9_CountMismatchRaises ==
    (pc = "called" /\ call.op = "coords_to_bedtool") =>
        /\ Len(call.arg) # Len(miso_ids) =>
            /\ call.raised = "ValueError: count"
            /\ raised = "ValueError: count"
            /\ call.ret = <<>>
        /\ call.raised = "none" => Len(call.arg) = Len(miso_ids)

\* calls with too few and with too many tuples have raised
C9_Witness ==
    /\ pc = "called"
    /\ call.op = "coords_to_bedtool"
    /\ Len(miso_ids) = 2
    /\ Len(call.arg) = 1
    /\ call.raised = "ValueError: count"

(***************************************************************************)
(* Properties of the isoform resolver (checked under SpecIso).             *)
(***************************************************************************)
ExonName(k) == <<"e", "x", "o", "n", ":", DigitChars[k + 1]>>

\* C5: splice_type_exons gives (exon1, exon3) and (exon1, exon2, exon3) for SE
\* and (exon1, exon3, exon4) and (exon1, exon2, exon4) for MXE.
C5_IsoformExons ==
    (pc = "returned" /\ call.op = "splice_type_exons") =>
        /\ call.splice_type = "SE" =>
            /\ call.ret.isoform1 = <<call.exons[1], call.exons[3]>>
            /\ call.ret.isoform2 = <<call.exons[1], call.exons[2], call.exons[3]>>
        /\ call.splice_type = "MXE" =>
            /\ call.ret.isoform1 = <<call.exons[1], call.exons[3], call.exons[4]>>
            /\ call.ret.isoform2 = <<call.exons[1], call.exons[2], call.exons[4]>>

ExampleSets == <<{"A", "B"}, {"A"}, {"B"}, {"A", "B"}>>

\* C6: for MXE, isoform 1 holds exactly the transcripts of positions 1, 3 and 4
\* and isoform 2 exactly those of positions 1, 2 and 4; the sets {A,B}, {A},
\* {B}, {A,B} give {B} and {A}, which the removal of the overlap leaves as
\* they are.
C6_MxeIsoformSets ==
    (pc = "returned" /\ call.splice_type = "MXE") =>
        /\ call.op = "splice_type_isoforms" =>
            /\ \A t \in TranscriptIds :
                /\ t \in call.ret.isoform1s <=>
                       \A k \in {1, 3, 4} : t \in call.transcripts[k]
                /\ t \in call.ret.isoform2s <=>
                       \A k \in {1, 2, 4} : t \in call.transcripts[k]
            /\ call.transcripts = ExampleSets =>
                   call.ret.isoform1s = {"B"} /\ call.ret.isoform2s = {"A"}
        /\ (call.op = "isoform_translations" /\ call.transcripts = ExampleSets) =>
            /\ call.raw.isoform1s \cap call.raw.isoform2s = {}
            /\ call.transcripts_per_isoform.isoform1s = {"B"}
            /\ call.transcripts_per_isoform.isoform2s = {"A"}

\* the example's sets have been resolved, by the method and by the caller
C6_Witness ==
    /\ pc = "returned"
    /\ call.splice_type = "MXE"
    /\ call.op = "splice_type_isoforms"
    /\ call.transcripts = ExampleSets
    /\ call.ret.isoform1s = {"B"}

\* C7: the transcript sets of the two isoforms that isoform_translations uses
\* after the removal of the overlap share no transcript, and each is within the
\* set splice_type_isoforms returned for that isoform.
C7_IsoformsDisjoint ==
    (pc = "returned" /\ call.op = "isoform_translations") =>
        /\ call.raw = splice_type_isoforms(call.splice_type, call.transcripts)
        /\ call.transcripts_per_isoform.isoform1s
               \cap call.transcripts_per_isoform.isoform2s = {}
        /\ call.transcripts_per_isoform.isoform1s \subseteq call.raw.isoform1s
        /\ call.transcripts_per_isoform.isoform2s \subseteq call.raw.isoform2s

\* an MXE event whose raw sets share a transcript and each hold one of their own
C7_Witness ==
    /\ pc = "returned"
    /\ call.op = "isoform_translations"
    /\ call.splice_type = "MXE"
    /\ call.raw.isoform1s \cap call.raw.isoform2s # {}
    /\ call.transcripts_per_isoform.isoform1s # call.raw.isoform1s

(***************************************************************************)
(* Properties of the conversion (checked under SpecConvert).               *)
(***************************************************************************)
\* the exons, as written, of the event named miso_id
WrittenExons(miso_id) == CHOOSE xs \in ConvertEvents : RenderId(xs) = miso_id

\* the comma-separated values of a table entry
ValuesOf(entry) ==
    IF entry.nan THEN {}
    ELSE LET parts == Split(entry.text, ",") IN {parts[k] : k \in 1..Len(parts)}

\* events with no resolved gene: the event has passed through the loop and no
\* gene id was gathered for it
Unresolved ==
    {miso_ids[k] : k \in {j \in 1..event_index :
        EventAttributes(db, miso_ids[j]).gencode = <<>>}}

\* C4: when the tables are written, each event with zero resolved genes has a
\* row holding the missing value in every one of the six event-to-attribute
\* tables, and is listed under no key of the three inverse tables.
C4_UnknownRowInEveryTable ==
    pc = "written" =>
        \A miso_id \in Unresolved :
            /\ \A name \in DOMAIN miso_tos :
                /\ miso_id \in DOMAIN miso_tos[name]
                /\ miso_tos[name][miso_id] = NaN
            /\ \A name \in DOMAIN to_misos :
                \A key \in DOMAIN to_misos[name] :
                    \A k \in 1..Len(to_misos[name][key]) :
                        to_misos[name][key][k] # miso_id

\* the transcripts of the database on the strand of the written exon x whose
\* span meets the span of x; none when the span of x is not numeric
Overlapping(x) ==
    IF ~IsInt(x.starts[1]) \/ ~IsInt(x.ends[1]) THEN {}
    ELSE {t \in Members(db.transcripts) :
            /\ t.chrom = x.chrom
            /\ t.strand = <<x.strand>>
            /\ t.start <= Int_(x.ends[1])
            /\ Int_(x.starts[1]) <= t.end}

\* what the written exon x is to contribute under attribute a: the values of
\* its own feature when the store has it, else those of the transcripts that
\* overlap it
Contribution(x, a) ==
    IF ExonIdOf(x) \in DOMAIN db.exons THEN Members(db.exons[ExonIdOf(x)][a])
    ELSE UNION {Members(t.attributes[a]) : t \in Overlapping(x)}

Contributions(miso_id, a) ==
    LET xs == WrittenExons(miso_id)
    IN  UNION {Contribution(xs[k], a) : k \in 1..Len(xs)}

\* C10: no error is raised; the loop passes through every event before the
\* tables are written; and each event passed through has a row whose genes
\* and transcripts are exactly those of its exons found in the store together
\* with those of the transcripts overlapping its exons not found there, an
\* exon with neither contributing nothing.
C10_FallbackToOverlappingTranscripts ==
    /\ raised = "none"
    /\ pc = "written" => event_index = Len(miso_ids)
    /\ \A k \in 1..event_index :
        LET miso_id == miso_ids[k] IN
        /\ miso_id \in DOMAIN miso_tos.gencode_gene
        /\ ValuesOf(miso_tos.gencode_gene[miso_id])
               = Contributions(miso_id, "gene_id")
        /\ ValuesOf(miso_tos.gene_name[miso_id])
               = Contributions(miso_id, "gene_name")
        /\ Contributions(miso_id, "gene_id") # {} =>
               /\ miso_id \in DOMAIN miso_tos.gencode_transcript
               /\ ValuesOf(miso_tos.gencode_transcript[miso_id])
                      = Contributions(miso_id, "transcript_id")

\* a written batch of two events, the first with an exon that is neither in
\* the store nor overlapped and an exon resolved only through an overlapping
\* transcript, the second resolved as well
C10_Witness ==
    /\ pc = "written"
    /\ Len(miso_ids) = 2
    /\ LET xs == WrittenExons(miso_ids[1]) IN
        /\ \E k \in 1..Len(xs) :
            /\ ExonIdOf(xs[k]) \notin DOMAIN db.exons
            /\ Overlapping(xs[k]) = {}
        /\ \E k \in 1..Len(xs) :
            /\ ExonIdOf(xs[k]) \notin DOMAIN db.exons
            /\ Overlapping(xs[k]) # {}
            /\ \A t \in Overlapping(xs[k]) :
                Members(t.attributes.gene_id)
                    \subseteq ValuesOf(miso_tos.gencode_gene[miso_ids[1]])
    /\ ~miso_tos.gencode_gene[miso_ids[2]].nan

\* the position of the first occurrence of miso_id in the batch
FirstIndex(miso_id) ==
    CHOOSE k \in 1..Len(miso_ids) :
        /\ miso_ids[k] = miso_id
        /\ \A j \in 1..(k - 1) : miso_ids[j] # miso_id

\* the events listed under key in the inverse table name
ListedUnder(name, key) ==
    IF key \in DOMAIN to_misos[name] THEN to_misos[name][key] ELSE <<>>

\* C11: after any number of events has passed through the loop, for each of
\* the three invertible attributes an event is listed under value v of the
\* inverse table exactly when v is one of the values joined in the event's
\* entry of the forward table, and the events under each value are in input
\* order, each listed once.
C11_ForwardInverseAgree ==
    \A name \in DOMAIN to_misos :
        /\ \A k \in 1..event_index :
            \A v \in DOMAIN to_misos[name] \cup ValuesOf(miso_tos[name][miso_ids[k]]) :
                (miso_ids[k] \in Members(ListedUnder(name, v)))
                    <=> (v \in ValuesOf(miso_tos[name][miso_ids[k]]))
        /\ \A v \in DOMAIN to_misos[name] :
            LET events == to_misos[name][v] IN
            /\ \A i, j \in 1..Len(events) : i < j => events[i] # events[j]
            /\ \A i, j \in 1..Len(events) :
                i < j => FirstIndex(events[i]) < FirstIndex(events[j])

(***************************************************************************)
(* Round trip through the interval (checked under SpecParse).              *)
(***************************************************************************)
\* s is a position as annotations write it: a numeral of at least 1 with no
\* sign and no leading zero
IsPosition(s) == IsInt(s) /\ Int_(s) >= 1 /\ Str(Int_(s)) = s

\* C12: for an exon field whose start and end are positions, the identifier
\* that seq_name_to_exon_id derives from the name 'chrom:start-end(strand)' of
\* the interval built from the parsed field is the identifier
\* miso_exon_to_gencode_exon gives the field: the start is 1-based again and
\* the end is unchanged.
C12_RoundTripThroughInterval ==
    (/\ pc = "returned"
     /\ call.op = "seq_name_to_exon_id"
     /\ IsPosition(miso_exon_to_coords(RenderExon(call.written))[2])
     /\ IsPosition(miso_exon_to_coords(RenderExon(call.written))[3]))
        => /\ raised = "none"
           /\ call.ret = miso_exon_to_gencode_exon(RenderExon(call.written))
           /\ call.arg = SeqName(ExonIntervalOf(call.written))

\* the round trip of a field whose start has one digit fewer once 0-based
C12_Witness ==
    /\ pc = "returned"
    /\ call.op = "seq_name_to_exon_id"
    /\ call.written = PlainExon(10, 99, "-")
    /\ call.arg = <<"c", "h", "r", "1", ":", "9", "-", "9", "9", "(", "-", ")">>
    /\ call.ret = <<"e", "x", "o", "n", ":", "c", "h", "r", "1", ":", "1", "0",
                    "-", "9", "9", ":", "-">>

(***************************************************************************)
(* The plot settings writer: write_sashimi_plot_settings.                  *)
(***************************************************************************)
MaxSamples == 2

\* an optional list argument: None, or a list
None == [none |-> TRUE, list |-> <<>>]

Some(xs) == [none |-> FALSE, list |-> xs]

\* '"{0}"'.format(x)
Quoted(x) == <<"\"">> \o x \o <<"\"">>

MutQuotedListCommaOnly(xs) ==
    <<"[">>
        \o Join(List([k \in 1..Len(xs) |-> Quoted(xs[k])], Len(xs)), <<",">>)
        \o <<"]">>

\* '[{0}]'.format(',\n\t'.join(map(lambda x: '"{0}"'.format(x), xs)))
QuotedList(xs) ==
    <<"[">>
        \o Join(List([k \in 1..Len(xs) |-> Quoted(xs[k])], Len(xs)),
                <<",", "\n", "\t">>)
        \o <<"]">>

\* the field of an optional list: 'key = [...]', or '' for None
OptionalField(key, value) ==
    IF value.none THEN <<>> ELSE key \o <<" ", "=", " ">> \o QuotedList(value.list)

ColorsKey == <<"c", "o", "l", "o", "r", "s">>

SampleLabelsKey ==
    <<"s", "a", "m", "p", "l", "e", "_", "l", "a", "b", "e", "l", "s">>

\* what format() puts in the places {2}, {3}, {17}, {18} and {21} of the
\* document; the other places take their arguments as they are
SettingsDocument(bam_files, miso_files, mapped_reads, colors, st, sample_labels) ==
    [bam_files |-> QuotedList(bam_files),
     miso_files |->
         QuotedList(List([k \in 1..Len(miso_files) |->
                             miso_files[k] \o <<"/">> \o st], Len(miso_files))),
     colors |-> OptionalField(ColorsKey, colors),
     coverages |->
         <<"[">>
             \o Join(List([k \in 1..Len(mapped_reads) |-> Str(mapped_reads[k])],
                          Len(mapped_reads)), <<",", "\n", "\t">>)
             \o <<"]">>,
     sample_labels |-> OptionalField(SampleLabelsKey, sample_labels)]

ColorNames == {<<"#", "a">>, <<"#", "b", "c">>, <<"r">>}

LabelNames == {<<"s", "1">>, <<"k", "d">>}

OptionalLists(S) == {None} \cup {Some(xs) : xs \in SeqsOf(S, 0, MaxSamples)}

\* write_sashimi_plot_settings(...) is called
InitSashimi ==
    /\ pc = "calling"
    /\ miso_ids = <<>>
    /\ splice_type = "none"
    /\ n_exons = 0
    /\ exon_ids = <<>>
    /\ exon_coords = <<>>
    /\ exon_bedtools = <<>>
    /\ intron_bedtools = <<>>
    /\ raised = "none"
    /\ call \in [op : {"write_sashimi_plot_settings"},
                 bam_files : {<<<<"a", ".", "b", "a", "m">>, <<"b", ".", "b", "a", "m">>>>},
                 miso_files : {<<<<"a">>, <<"b">>>>},
                 mapped_reads : {<<1000, 20>>},
                 splice_type : {<<"S", "E">>},
                 colors : OptionalLists(ColorNames),
                 sample_labels : OptionalLists(LabelNames)]
    /\ NoConversion

\* the body of write_sashimi_plot_settings, lines 680-760
WriteSashimiPlotSettings ==
    /\ pc = "calling"
    /\ call.op = "write_sashimi_plot_settings"
    /\ call' = [op |-> "written_sashimi_plot_settings",
                colors |-> call.colors,
                sample_labels |-> call.sample_labels,
                file |-> SettingsDocument(call.bam_files, call.miso_files,
                                          call.mapped_reads, call.colors,
                                          call.splice_type, call.sample_labels)]
    /\ pc' = "returned"
    /\ UNCHANGED <<object, raised, conversion>>

NextSashimi == WriteSashimiPlotSettings

SpecSashimi == InitSashimi /\ [][NextSashimi]_vars

\* the place in the list body where the k-th quoted entry of xs begins
RECURSIVE EntryOffset(_, _)
EntryOffset(xs, k) ==
    IF k = 1 THEN 1 ELSE EntryOffset(xs, k - 1) + Len(xs[k - 1]) + 5

\* field is 'key = [' and ']' around the n entries of xs, each between double
\* quotes, in order, a comma, a newline and a tab between neighbours
IsListField(field, key, xs) ==
    LET opening == key \o <<" ", "=", " ", "[">>
        body == SubSeq(field, Len(opening) + 1, Len(field) - 1)
        n == Len(xs)
    IN  /\ Len(field) >= Len(opening) + 1
        /\ SubSeq(field, 1, Len(opening)) = opening
        /\ field[Len(field)] = "]"
        /\ Len(body) = IF n = 0 THEN 0 ELSE EntryOffset(xs, n) + Len(xs[n]) + 1
        /\ \A k \in 1..n :
            LET at == EntryOffset(xs, k) IN
            /\ body[at] = "\""
            /\ SubSeq(body, at + 1, at + Len(xs[k])) = xs[k]
            /\ body[at + Len(xs[k]) + 1] = "\""
            /\ k < n => SubSeq(body, at + Len(xs[k]) + 2, at + Len(xs[k]) + 4)
                            = <<",", "\n", "\t">>

\* C13: the colors place of the written document is empty when colors is None
\* and otherwise is the single field 'colors = [...]' holding the n entries of
\* colors between double quotes, in order, joined by a comma followed by a
\* newline and a tab; sample_labels is rendered by the same rule.
C13_OptionalListFields ==
    (pc = "returned" /\ call.op = "written_sashimi_plot_settings") =>
        /\ IF call.colors.none THEN call.file.colors = <<>>
           ELSE IsListField(call.file.colors, ColorsKey, call.colors.list)
        /\ IF call.sample_labels.none THEN call.file.sample_labels = <<>>
           ELSE IsListField(call.file.sample_labels, SampleLabelsKey,
                            call.sample_labels.list)

\* a document written for two colors and no sample labels
C13_Witness ==
    /\ pc = "returned"
    /\ call.op = "written_sashimi_plot_settings"
    /\ call.colors = Some(<<<<"#", "a">>, <<"r">>>>)
    /\ call.sample_labels = None
    /\ call.file.sample_labels = <<>>
    /\ call.file.colors =
           <<"c", "o", "l", "o", "r", "s", " ", "=", " ", "[", "\"", "#", "a",
             "\"", ",", "\n", "\t", "\"", "r", "\"", "]">>

(***************************************************************************)
(* Intron intervals across a batch (checked under Spec).                   *)
(***************************************************************************)
\* iv is what coords_to_intron_bedtool emits at intron position k for the
\* event named miso_id with exons exons when that event is the whole batch
IsOwnIntron(iv, miso_id, exons, k) ==
    /\ coords_to_intron_bedtool_raises(<<miso_id>>, <<exons>>, k) = "none"
    /\ iv = coords_to_intron_bedtool(<<miso_id>>, <<exons>>, k)[1]

\* C14: every intron interval emitted, at any intron position and for any
\* batch, has start <= end, and is the interval its event's own two flanking
\* exons give, whatever events came before it in the batch.
C14_IntronFromOwnExons ==
    /\ Constructed =>
        \A k \in 1..Len(intron_bedtools) : \A i \in 1..Len(intron_bedtools[k]) :
            /\ intron_bedtools[k][i].start <= intron_bedtools[k][i].stop
            /\ IsOwnIntron(intron_bedtools[k][i], miso_ids[i], exon_coords[i], k)
    /\ (pc = "called" /\ call.op = "coords_to_intron_bedtool") =>
        \A i \in 1..Len(call.ret) :
            /\ call.ret[i].start <= call.ret[i].stop
            /\ IsOwnIntron(call.ret[i], miso_ids[i], call.arg[i],
                           call.intron_number)

(***************************************************************************)
(* Skipped exon events in the isoform resolver (checked under SpecIso).    *)
(***************************************************************************)
\* C15: for SE, every transcript of the raw isoform 2 set that
\* splice_type_isoforms returns is in the raw isoform 1 set; so once
\* isoform_translations has removed the overlap isoform 2 has no transcript,
\* and isoform 1 has exactly the transcripts of exon 1 and exon 3 that are
\* not transcripts of exon 2.
C15_SkippedExonIsoform2Empty ==
    /\ (pc = "returned" /\ call.op = "splice_type_isoforms"
            /\ call.splice_type = "SE") =>
        \A t \in call.ret.isoform2s : t \in call.ret.isoform1s
    /\ (pc = "returned" /\ call.op = "isoform_translations"
            /\ call.splice_type = "SE") =>
        /\ \A t \in call.raw.isoform2s : t \in call.raw.isoform1s
        /\ call.transcripts_per_isoform.isoform2s = {}
        /\ \A t \in TranscriptIds :
            t \in call.transcripts_per_isoform.isoform1s
                <=> (/\ t \in call.transcripts[1]
                     /\ t \in call.transcripts[3]
                     /\ t \notin call.transcripts[2])

\* an SE event with a transcript through all three exons and one that skips
\* the middle exon: the first is removed, the second stays in isoform 1
C15_Witness ==
    /\ pc = "returned"
    /\ call.op = "isoform_translations"
    /\ call.splice_type = "SE"
    /\ call.raw.isoform2s # {}
    /\ call.transcripts_per_isoform.isoform1s # {}
    /\ call.transcripts_per_isoform.isoform1s # call.raw.isoform1s

(***************************************************************************)
(* Translations of the isoforms (checked under SpecIso).                   *)
(***************************************************************************)
\* the places among the CDS children cds of those that match a CDS id of the
\* isoform
MatchPlaces(cds_isoform, cds) ==
    {p \in 1..Len(cds) : InSpliceForm(cds[p], cds_isoform)}

\* the matching children are as many as the CDS ids of the isoform and stand
\* next to each other among the children
Translatable(cds_isoform, cds) ==
    LET places == MatchPlaces(cds_isoform, cds) IN
    /\ Cardinality(places) = Len(cds_isoform)
    /\ \A p, q \in places : p <= q => \A r \in p..q : r \in places

\* C16: for a transcript of an isoform, a translation is recorded whenever the
\* CDS children that match the isoform's CDS ids are as many as those ids and
\* consecutive among the children; 'no translation' is recorded only when
\* they are not; and what is recorded is filed under the isoform's index.
C16_TranslationWhenCdsConsecutive ==
    (pc = "returned" /\ call.op = "translate_transcript") =>
        /\ Translatable(call.cds_isoform, call.cds) => call.recorded = "translation"
        /\ call.recorded = "no translation" =>
               ~Translatable(call.cds_isoform, call.cds)
        /\ call.index = call.isoform

====
